---- MODULE Spec2Model ----
(***************************************************************************)
(* LocatePy: the database builders (dataprocessing/dataprocessing.py and   *)
(* dataprocessing/processboundaries.py) and the reverse geocoder           *)
(* (locatepy/pylocator.py).                                                *)
(*                                                                         *)
(* Geometry.  A well-formed geometry is a non-empty set of cells: a        *)
(* (multi)polygon made of unit squares.  The squares lie in one row, one   *)
(* unit apart: cell i is the closed square [2i, 2i+1] x [0, 1].  All       *)
(* coordinates are kept doubled, so that the centre of a cell is an        *)
(* integer: cell i spans x in [4i, 4i+2], y in [0, 2], its centre is       *)
(* (4i+1, 1).  Areas are counted in cells.  Two geometries intersect when  *)
(* they share a cell; the bounding box of a geometry of several cells      *)
(* also spans the gaps and the cells between them.                         *)
(*                                                                         *)
(* Python None / SQL NULL is 0 for ids and indices and NoName for names.   *)
(***************************************************************************)
EXTENDS Integers, Sequences, FiniteSets

\* ---------------------------------------------------------------- bounds
GridW == 3

MaxStates == 2

MaxMunis == 2

\* ------------------------------------------------------------ value sets
Cells == 0 .. (GridW - 1)

Geoms == (SUBSET Cells) \ {{}}

\* A "geometry" member that shape() rejects.
Malformed == {-1}

Variants == {"dataprocessing", "processboundaries"}

\* shapeGroup values: "CAN" is the code of the one country of the country
\* file, "ZZZ" is a code no country carries.
Codes == {"CAN", "ZZZ"}

NoName == <<"None", 0>>

UnknownName == <<"UNKNOWN NAME", 0>>

UNKNOWN == <<"UNKNOWN", 0>>

CountryFile == << [shapeName |-> <<"country", 1>>, shapeGroup |-> "CAN"] >>

\* The features a state file can hold at position i.  processboundaries
\* never reads a state's shapeGroup, so only dataprocessing varies it.
StateFeatures(v, i) ==
    { [shapeID |-> <<"sid", i>>, shapeName |-> <<"state", i>>,
       shapeGroup |-> c, geometry |-> g] :
         c \in (IF v = "dataprocessing" THEN Codes ELSE {"CAN"}), g \in Geoms }

\* The features a municipal file can hold at position k.
MuniFeatures(k) ==
    { [shapeName |-> <<"muni", k>>, shapeGroup |-> c, geometry |-> g] :
         c \in Codes, g \in Geoms \cup {Malformed} }

\* ------------------------------------------------------------- sequences
\* Every order in which the members of S can be returned.
Orders(S) ==
    { s \in [1 .. Cardinality(S) -> S] : \A x \in S : \E i \in DOMAIN s : s[i] = x }

Abs(n) == IF n < 0 THEN -n ELSE n

SetMin(S) == CHOOSE x \in S : \A y \in S : x <= y

SetMax(S) == CHOOSE x \in S : \A y \in S : y <= x

\* -------------------------------------------------------------- geometry
\* geom.bounds
Bounds(g) ==
    [minx |-> 4 * SetMin(g), miny |-> 0, maxx |-> 4 * SetMax(g) + 2, maxy |-> 2]

BoxesOverlap(a, b) ==
    /\ a.minx <= b.maxx /\ b.minx <= a.maxx
    /\ a.miny <= b.maxy /\ b.miny <= a.maxy

\* prepared.covers(geom)
Covers(sg, g) == g \subseteq sg

\* prepared.intersects(geom)
Intersects(sg, g) == sg \cap g # {}

\* sg.intersection(geom).area
IntersectionArea(sg, g) == Cardinality(sg \cap g)

Area(g) == Cardinality(g)

\* Doubled distance between two geometries (0 when they intersect).
Distance(sg, g) ==
    SetMin({ IF x = y THEN 0 ELSE 4 * Abs(x - y) - 2 : x \in sg, y \in g })

\* geom.covers(Point(lon, lat)), boundary inclusive.
CoversPoint(g, lon, lat) ==
    /\ 0 <= lat /\ lat <= 2
    /\ \E x \in g : 4 * x <= lon /\ lon <= 4 * x + 2

\* A ratio inter/area as the pair <<numerator, denominator>>; -1.0 is <<-1, 1>>.
RatioGreater(r, b) == r[1] * b[2] > b[1] * r[2]

AreaRatio(sg, g) ==
    IF Area(g) > 0 THEN <<IntersectionArea(sg, g), Area(g)>> ELSE <<0, 1>>

\* ------------------------------------------------------- stored geometry
Pow2(n) == 2 ^ n

\* wkb_dumps: one bit per cell.
WkbDumps(g) ==
    LET RECURSIVE Sum(_)
        Sum(S) == IF S = {} THEN 0
                  ELSE LET x == CHOOSE x \in S : TRUE IN Pow2(x) + Sum(S \ {x})
    IN Sum(g)

WkbValid(n) == n >= 1 /\ n < Pow2(GridW)

\* wkb_loads of a valid well-known-binary body.
WkbLoads(n) == { x \in Cells : (n \div Pow2(x)) % 2 = 1 }

\* shapely.simplify(geom, 0.001): the tolerance is a thousandth of a cell
\* side and every ring is the four corners of a unit square, none of which
\* lies within the tolerance of the chord of its neighbours: the simplified
\* geometry is made of the same squares.
Simplify(g) == g

\* zlib.compress / zlib.decompress: a blob is [deflated, body].
Compress(n) == [deflated |-> TRUE, body |-> n]

Raw(n) == [deflated |-> FALSE, body |-> n]

CanDecompress(blob) == blob.deflated

Decompress(blob) == blob.body

\* wkb_loads(decompress(blob)) returns a geometry rather than raising.
Materializes(blob) == CanDecompress(blob) /\ WkbValid(Decompress(blob))

Materialize(blob) == WkbLoads(Decompress(blob))

\* ------------------------------------------------------------------ state
VARIABLES
    variant,               \* which builder script runs
    pc,                    \* position of the build script
    countries,             \* table countries
    states,                \* table states
    municipalities,        \* table municipalities
    municipalities_rtree,  \* virtual table municipalities_rtree
    state_data,            \* features of the state file, as read
    state_geoms,           \* list of state geometries behind the STRtree
    state_lookup,          \* dict keyed by geometry: the set of its <<geometry, shapeID>> items
    muni_data,             \* features of the municipal file, as read
    failed,                \* failed / failed_munis
    picked,                \* per municipality: candidates as returned, state index kept
    result                 \* what the last geocode_point call did

vars ==
    << variant, pc, countries, states, municipalities, municipalities_rtree,
       state_data, state_geoms, state_lookup, muni_data, failed, picked, result >>

Init ==
    /\ variant \in Variants
    /\ pc = "countries"
    /\ countries = << >>
    /\ states = << >>
    /\ municipalities = << >>
    /\ municipalities_rtree = << >>
    /\ state_data = << >>
    /\ state_geoms = << >>
    /\ state_lookup = {}
    /\ muni_data = << >>
    /\ failed = << >>
    /\ picked = << >>
    /\ result = << >>

\* ---------------------------------------------------------------- lookups
\* SELECT id FROM countries WHERE code = ?  ... fetchone()
CountryRows(table, code) == { i \in DOMAIN table : table[i].code = code }

\* processboundaries.lookup_country_id: row[0] if row else None
lookup_country_id(table, code) ==
    IF CountryRows(table, code) = {} THEN 0
    ELSE table[SetMin(CountryRows(table, code))].id

\* dataprocessing.lookup_country_id_by_code: row[0], a TypeError when the
\* query returned no row.
lookup_country_id_by_code(table, code) ==
    IF CountryRows(table, code) = {}
    THEN [raises |-> TRUE, id |-> 0]
    ELSE [raises |-> FALSE, id |-> table[SetMin(CountryRows(table, code))].id]

\* The country lookup of the running variant.
LookupCountry(v, table, code) ==
    IF v = "dataprocessing" THEN lookup_country_id_by_code(table, code)
    ELSE [raises |-> FALSE, id |-> lookup_country_id(table, code)]

\* cur.lastrowid of an INSERT into a table nothing is deleted from.
LastRowId(table) == Len(table) + 1

\* ------------------------------------------------------- ingest_countries
IngestCountries ==
    /\ pc = "countries"
    /\ countries' = [ i \in DOMAIN CountryFile |->
                        [id |-> i, name |-> CountryFile[i].shapeName,
                         code |-> CountryFile[i].shapeGroup] ]
    /\ pc' = "states"
    /\ UNCHANGED << variant, states, municipalities, municipalities_rtree, state_data,
                    state_geoms, state_lookup, muni_data, failed, picked, result >>

\* ---------------------------------------------------------- ingest_states
\* One pass of the loop over the state features.  In dataprocessing the
\* country lookup is outside any try: a miss ends the script, and the rows
\* inserted since the last commit are rolled back with the connection.
IngestState ==
    /\ pc = "states"
    /\ Len(state_data) < MaxStates
    /\ \E f \in StateFeatures(variant, Len(state_data) + 1) :
         LET lk == lookup_country_id_by_code(countries, f.shapeGroup) IN
           /\ state_data' = Append(state_data, f)
           /\ IF variant = "dataprocessing"
              THEN IF lk.raises
                   THEN /\ pc' = "crashed"
                        /\ states' = << >>
                   ELSE /\ pc' = pc
                        /\ states' = Append(states,
                               [id |-> LastRowId(states), country_id |-> lk.id,
                                code |-> f.shapeID, name |-> f.shapeName])
              ELSE /\ pc' = pc
                   /\ states' = Append(states,
                          [id |-> LastRowId(states), country_id |-> 0,
                           code |-> f.shapeID, name |-> f.shapeName])
    /\ UNCHANGED << variant, countries, municipalities, municipalities_rtree,
                    state_geoms, state_lookup, muni_data, failed, picked, result >>

\* The loop ends with the file; con.commit().
CommitStates ==
    /\ pc = "states"
    /\ pc' = "load_states"
    /\ UNCHANGED << variant, countries, states, municipalities, municipalities_rtree,
                    state_data, state_geoms, state_lookup, muni_data, failed, picked,
                    result >>

\* -------------------------------------------------- ingest_municipalities
\* state_lookup[geom] = shapeID over the features in file order: a later
\* feature with an equal geometry replaces the entry of an earlier one.
BuildLookup(features) ==
    { << features[i].geometry, features[i].shapeID >> :
        i \in { j \in DOMAIN features :
                  \A k \in DOMAIN features :
                     features[k].geometry = features[j].geometry => k <= j } }

\* state_lookup[geom]
LookupState(dict, g) == (CHOOSE item \in dict : item[1] = g)[2]

\* The head of the function: the state geometries are loaded, the STRtree
\* and the prepared geometries are built.  STRtree([]) builds an empty
\* tree; nothing here raises on an empty state file.
LoadStateGeometries ==
    /\ pc = "load_states"
    /\ state_geoms' = [ i \in DOMAIN state_data |-> state_data[i].geometry ]
    /\ state_lookup' = BuildLookup(state_data)
    /\ pc' = "municipalities"
    /\ UNCHANGED << variant, countries, states, municipalities, municipalities_rtree,
                    state_data, muni_data, failed, picked, result >>

\* tree.query(geom): the indices (1-based here) of the tree geometries
\* whose bounding box overlaps the bounding box of geom.
TreeQuery(geoms, g) ==
    { i \in DOMAIN geoms : BoxesOverlap(Bounds(geoms[i]), Bounds(g)) }

\* tree.nearest(geom): the indices at minimum distance, of which the tree
\* returns one; no index (None) on an empty tree.
TreeNearest(geoms, g) ==
    { i \in DOMAIN geoms : \A j \in DOMAIN geoms : Distance(geoms[i], g) <= Distance(geoms[j], g) }

\* What tree.nearest can return: an index, or None (0) on an empty tree.
NearestChoices(geoms, g) ==
    IF g = Malformed THEN {0}
    ELSE IF TreeNearest(geoms, g) = {} THEN {0} ELSE TreeNearest(geoms, g)

\* What tree.query can return: the candidates in any order.
CandidateOrders(geoms, g) ==
    IF g = Malformed THEN { << >> } ELSE Orders(TreeQuery(geoms, g))

\* pg.covers(geom) or pg.intersects(geom)   (dataprocessing)
\* pg.intersects(geom)                      (processboundaries)
Overlaps(v, sg, g) ==
    IF v = "dataprocessing" THEN Covers(sg, g) \/ Intersects(sg, g)
    ELSE Intersects(sg, g)

\* A scan that replaces the best candidate on an equal ratio too.
BetterOrEqual(ratio, best_ratio) == ~ RatioGreater(best_ratio, ratio)

\* if ratio > best_ratio
Better(ratio, best_ratio) == RatioGreater(ratio, best_ratio)

\* The loop over the candidates from position i on, with the best index
\* and ratio so far; the index it ends with (0 is None).
RECURSIVE ScanCandidates(_, _, _, _, _, _, _)
ScanCandidates(v, order, i, geoms, g, best_idx, best_ratio) ==
    IF i > Len(order) THEN best_idx
    ELSE LET idx == order[i]
             sg == geoms[idx]
         IN IF Overlaps(v, sg, g) /\ Better(AreaRatio(sg, g), best_ratio)
            THEN ScanCandidates(v, order, i + 1, geoms, g, idx, AreaRatio(sg, g))
            ELSE ScanCandidates(v, order, i + 1, geoms, g, best_idx, best_ratio)

\* A scan result used as it is, without the nearest-neighbour fallback.
WithoutFallback(best_idx, nearest) == best_idx

\* if best_idx is None: best_idx = tree.nearest(geom)
WithFallback(best_idx, nearest) == IF best_idx = 0 THEN nearest ELSE best_idx

\* name = props.get("shapeName") or "UNKNOWN NAME"
NameOrUnknown(name) == IF name = NoName THEN UnknownName ELSE name

\* The geom_wkb column of a municipality row.
StoredGeometry(v, g) ==
    IF v = "dataprocessing" THEN Raw(WkbDumps(g))
    ELSE Compress(WkbDumps(Simplify(g)))

\* The body of the try block for one feature, up to the first INSERT:
\* either the exception that ends it, or the values of the row.
\* "order" is what tree.query returned, "nearest" what tree.nearest would.
Prepare(v, ctry, geoms, dict, f, order, nearest) ==
    LET g == f.geometry
        best == WithFallback(
                   ScanCandidates(v, order, 1, geoms, g, 0, << -1, 1 >>), nearest)
        lk == LookupCountry(v, ctry, f.shapeGroup)
    IN IF g = Malformed
       THEN [error |-> "shape", best |-> 0, state_id |-> NoName, country_id |-> 0]
       ELSE IF best = 0
       THEN [error |-> "index None", best |-> 0, state_id |-> NoName, country_id |-> 0]
       ELSE IF lk.raises
       THEN [error |-> "lookup None", best |-> best, state_id |-> NoName, country_id |-> 0]
       ELSE [error |-> "", best |-> best,
             state_id |-> LookupState(dict, geoms[best]), country_id |-> lk.id]

\* The row of the first INSERT.
MuniRow(v, id, f, p) ==
    [id |-> id, state_id |-> p.state_id, country_id |-> p.country_id,
     code |-> NoName, name |-> NameOrUnknown(f.shapeName),
     geom_wkb |-> StoredGeometry(v, f.geometry)]

\* The row of the second INSERT.
RtreeRow(id, g) ==
    [id |-> id, minx |-> Bounds(g).minx, maxx |-> Bounds(g).maxx,
     miny |-> Bounds(g).miny, maxy |-> Bounds(g).maxy]

\* The except clause: the failure record appended.
FailureRecord(f, error) ==
    [properties |-> [shapeName |-> f.shapeName, shapeGroup |-> f.shapeGroup],
     error |-> error]

\* One pass of the loop over the municipal features.
IngestMunicipality ==
    /\ pc = "municipalities"
    /\ Len(muni_data) < MaxMunis
    /\ \E f \in MuniFeatures(Len(muni_data) + 1) :
       \E order \in CandidateOrders(state_geoms, f.geometry) :
       \E nearest \in NearestChoices(state_geoms, f.geometry) :
         LET p == Prepare(variant, countries, state_geoms, state_lookup, f, order, nearest)
             id == LastRowId(municipalities)
         IN /\ muni_data' = Append(muni_data, f)
            /\ picked' = Append(picked, [cands |-> order, best |-> p.best])
            /\ IF p.error = ""
               THEN /\ municipalities' = Append(municipalities, MuniRow(variant, id, f, p))
                    /\ municipalities_rtree' =
                           Append(municipalities_rtree, RtreeRow(id, f.geometry))
                    /\ failed' = failed
               ELSE /\ failed' = Append(failed, FailureRecord(f, p.error))
                    /\ UNCHANGED << municipalities, municipalities_rtree >>
    /\ UNCHANGED << variant, pc, countries, states, state_data, state_geoms,
                    state_lookup, result >>

\* The same pass when the second INSERT raises (the store refuses the
\* row): the first INSERT stays in the open transaction, the except
\* clause records the feature as failed.
IngestMunicipalityRtreeRaises ==
    /\ pc = "municipalities"
    /\ Len(muni_data) < MaxMunis
    /\ \E f \in MuniFeatures(Len(muni_data) + 1) :
       \E order \in CandidateOrders(state_geoms, f.geometry) :
       \E nearest \in NearestChoices(state_geoms, f.geometry) :
         LET p == Prepare(variant, countries, state_geoms, state_lookup, f, order, nearest)
             id == LastRowId(municipalities)
         IN /\ p.error = ""
            /\ muni_data' = Append(muni_data, f)
            /\ picked' = Append(picked, [cands |-> order, best |-> p.best])
            /\ municipalities' = Append(municipalities, MuniRow(variant, id, f, p))
            /\ failed' = Append(failed, FailureRecord(f, "rtree"))
            /\ UNCHANGED municipalities_rtree
    /\ UNCHANGED << variant, pc, countries, states, state_data, state_geoms,
                    state_lookup, result >>

\* The loop ends with the file; con.commit().
CommitMunicipalities ==
    /\ pc = "municipalities"
    /\ pc' = "done"
    /\ UNCHANGED << variant, countries, states, municipalities, municipalities_rtree,
                    state_data, state_geoms, state_lookup, muni_data, failed, picked,
                    result >>

\* ------------------------------------------------------------- pylocator
\* Query points, in doubled coordinates: the cell centres (points strictly
\* inside a cell) at latitude 1, and the points above them, outside the
\* row of cells, at latitude 3.
Lons == { 4 * x + 1 : x \in Cells }

Lats == {1, 3}

\* The rows of the SELECT of find_admin: municipalities_rtree joined to
\* municipalities on the id, to states on s.code = m.state_id and to
\* countries on c.id = m.country_id, with the bounding box holding the
\* point.  An inner join: a municipality with no matching state or
\* country row yields no row.
JoinRows(lon, lat) ==
    { [id |-> municipalities[m].id,
       municipal_name |-> municipalities[m].name,
       geom |-> municipalities[m].geom_wkb,
       district_name |-> states[s].name,
       country_name |-> countries[c].name] :
        << m, s, c >> \in
          { t \in (DOMAIN municipalities) \X (DOMAIN states) \X (DOMAIN countries) :
              /\ \E r \in DOMAIN municipalities_rtree :
                   /\ municipalities_rtree[r].id = municipalities[t[1]].id
                   /\ municipalities_rtree[r].minx <= lon
                   /\ municipalities_rtree[r].maxx >= lon
                   /\ municipalities_rtree[r].miny <= lat
                   /\ municipalities_rtree[r].maxy >= lat
              /\ states[t[2]].code = municipalities[t[1]].state_id
              /\ countries[t[3]].id = municipalities[t[1]].country_id } }

\* The dict find_admin returns for a row.
Location(row) ==
    [municipal_name |-> row.municipal_name, district_name |-> row.district_name,
     country_name |-> row.country_name]

UnknownLocation ==
    [municipal_name |-> UNKNOWN, district_name |-> UNKNOWN, country_name |-> UNKNOWN]

\* find_admin: the loop over the fetched rows from position i on.
\* wkb_loads(decompress(row[1])) is inside no try: a payload that does not
\* materialize raises out of the function.  "none" is the return of None.
RECURSIVE find_admin(_, _, _, _)
find_admin(rows, i, lon, lat) ==
    IF i > Len(rows) THEN [outcome |-> "none", location |-> UnknownLocation]
    ELSE IF ~ Materializes(rows[i].geom)
    THEN [outcome |-> "raised", location |-> UnknownLocation]
    ELSE IF CoversPoint(Materialize(rows[i].geom), lon, lat)
    THEN [outcome |-> "found", location |-> Location(rows[i])]
    ELSE find_admin(rows, i + 1, lon, lat)

\* A geocode_point that hands the None of find_admin on to its caller.
geocode_point_returns_none(rows, lon, lat) ==
    LET location == find_admin(rows, 1, lon, lat)
    IN IF location.outcome = "none"
       THEN [outcome |-> "returned",
             location |-> [municipal_name |-> NoName, district_name |-> NoName,
                           country_name |-> NoName]]
       ELSE IF location.outcome = "found"
       THEN [outcome |-> "returned", location |-> location.location]
       ELSE [outcome |-> "raised", location |-> UnknownLocation]

\* geocode_point: None becomes the UNKNOWN dict; an exception propagates.
geocode_point(rows, lon, lat) ==
    LET location == find_admin(rows, 1, lon, lat)
    IN IF location.outcome = "none"
       THEN [outcome |-> "returned", location |-> UnknownLocation]
       ELSE IF location.outcome = "found"
       THEN [outcome |-> "returned", location |-> location.location]
       ELSE [outcome |-> "raised", location |-> UnknownLocation]

\* One call of geocode_point against the database processboundaries built
\* (the only builder that writes the zlib-compressed payloads and the
\* (code, name) states table that find_admin reads).  fetchall() returns
\* the joined rows in an order the query does not fix.  A run makes one
\* call, as the module does when it is loaded; calls only read the store.
GeocodePoint ==
    /\ pc = "done"
    /\ variant = "processboundaries"
    /\ result = << >>
    /\ \E lon \in Lons, lat \in Lats :
       \E rows \in Orders(JoinRows(lon, lat)) :
         LET got == geocode_point(rows, lon, lat)
         IN result' = << [lat |-> lat, lon |-> lon, rows |-> rows,
                          outcome |-> got.outcome, location |-> got.location] >>
    /\ UNCHANGED << variant, pc, countries, states, municipalities,
                    municipalities_rtree, state_data, state_geoms, state_lookup,
                    muni_data, failed, picked >>

\* The stored payload of one municipality is damaged on disk between the
\* build and a query: it no longer decompresses.
DamagePayload ==
    /\ pc = "done"
    /\ variant = "processboundaries"
    /\ result = << >>
    /\ \E m \in DOMAIN municipalities :
         /\ Materializes(municipalities[m].geom_wkb)
         /\ municipalities' =
              [municipalities EXCEPT ![m].geom_wkb = Raw(municipalities[m].geom_wkb.body)]
    /\ UNCHANGED << variant, pc, countries, states, municipalities_rtree, state_data,
                    state_geoms, state_lookup, muni_data, failed, picked, result >>

\* ---------------------------------------------------------- specifications
Next ==
    \/ IngestCountries
    \/ IngestState
    \/ CommitStates
    \/ LoadStateGeometries
    \/ IngestMunicipality
    \/ CommitMunicipalities
    \/ GeocodePoint

\* The program on every input, on a store that works.
Spec == Init /\ [][Next]_vars

NextStoreRaises ==
    \/ Next
    \/ IngestMunicipalityRtreeRaises

\* The program on every input, on a store that can refuse the second INSERT.
SpecStoreRaises == Init /\ [][NextStoreRaises]_vars

NextDamaged ==
    \/ Next
    \/ DamagePayload

\* The program on every input, with payloads that can be damaged on disk
\* before the query reads them.
SpecDamaged == Init /\ [][NextDamaged]_vars

\* ============================================================== the claims
\* What the tables and the failure list say about the feature at position k
\* of the municipal file (features are told apart by their shapeName).
WellFormed(k) == muni_data[k].geometry # Malformed

RowsOf(k) ==
    { m \in DOMAIN municipalities : municipalities[m].name = muni_data[k].shapeName }

FailuresOf(k) ==
    { i \in DOMAIN failed : failed[i].properties.shapeName = muni_data[k].shapeName }

BoxRowsOf(k) ==
    { r \in DOMAIN municipalities_rtree :
        \E m \in RowsOf(k) : municipalities_rtree[r].id = municipalities[m].id }

\* The candidates of the range query that cover or intersect feature k.
OverlappingCandidates(k) ==
    { i \in DOMAIN state_geoms :
        /\ BoxesOverlap(Bounds(state_geoms[i]), Bounds(muni_data[k].geometry))
        /\ \/ Covers(state_geoms[i], muni_data[k].geometry)
           \/ Intersects(state_geoms[i], muni_data[k].geometry) }

\* Those of them whose ratio no other one exceeds.
MaxRatioCandidates(k) ==
    LET over == OverlappingCandidates(k)
    IN { i \in over :
           \A j \in over :
              IntersectionArea(state_geoms[j], muni_data[k].geometry)
                <= IntersectionArea(state_geoms[i], muni_data[k].geometry) }

\* The one of them that the range query returned first.
FirstReturned(k) ==
    LET top == MaxRatioCandidates(k)
    IN picked[k].cands[ SetMin({ q \in DOMAIN picked[k].cands :
                                    picked[k].cands[q] \in top }) ]

\* The parents at minimum distance from feature k.
NearestParents(k) ==
    { i \in DOMAIN state_geoms :
        \A j \in DOMAIN state_geoms :
           Distance(state_geoms[i], muni_data[k].geometry)
             <= Distance(state_geoms[j], muni_data[k].geometry) }

MissesCountry(code) == \A c \in DOMAIN countries : countries[c].code # code

\* C1 (as claimed): in the municipality batch every feature read ends in
\* exactly one outcome, its municipality row written or a failure record
\* appended, never both and never neither, and no failure ends the batch.
C1_ExactlyOneOutcome ==
    /\ pc \in {"municipalities", "done"} =>
         \A k \in DOMAIN muni_data :
            /\ Cardinality(RowsOf(k)) + Cardinality(FailuresOf(k)) = 1
    /\ (pc = "crashed" => muni_data = << >>)

RowsCovering(lon, lat) ==
    { m \in DOMAIN municipalities :
        /\ Materializes(municipalities[m].geom_wkb)
        /\ CoversPoint(Materialize(municipalities[m].geom_wkb), lon, lat) }

\* C4 (as claimed): after a completed ingestion, for a point strictly
\* inside the polygon of one stored municipality and of no other,
\* geocode_point returns that municipality's name with the names of the
\* state and country its parent links record, never the unknown result.
C4_InsideIsFound ==
    \A q \in DOMAIN result :
       \A m \in DOMAIN municipalities :
          RowsCovering(result[q].lon, result[q].lat) = {m} =>
             /\ result[q].outcome = "returned"
             /\ result[q].location.municipal_name = municipalities[m].name
             /\ \E st \in DOMAIN states :
                   /\ states[st].code = municipalities[m].state_id
                   /\ states[st].name = result[q].location.district_name
             /\ \E c \in DOMAIN countries :
                   /\ countries[c].id = municipalities[m].country_id
                   /\ countries[c].name = result[q].location.country_name

\* C5: a query whose candidates all materialize and none of which covers
\* the point (or that has no candidate) returns normally, with the three
\* names set to UNKNOWN.
C5_UnknownWhenUncovered ==
    \A q \in DOMAIN result :
       (\A i \in DOMAIN result[q].rows :
           /\ Materializes(result[q].rows[i].geom)
           /\ ~ CoversPoint(Materialize(result[q].rows[i].geom),
                            result[q].lon, result[q].lat)) =>
          /\ result[q].outcome = "returned"
          /\ result[q].location.municipal_name = UNKNOWN
          /\ result[q].location.district_name = UNKNOWN
          /\ result[q].location.country_name = UNKNOWN

\* C5 witness: the range query returned a candidate whose bounding box
\* holds the point and whose polygon does not cover it, and the call
\* returned the unknown result.
C5_Witness ==
    \E q \in DOMAIN result :
       /\ Len(result[q].rows) > 0
       /\ \A i \in DOMAIN result[q].rows :
             /\ Materializes(result[q].rows[i].geom)
             /\ ~ CoversPoint(Materialize(result[q].rows[i].geom),
                              result[q].lon, result[q].lat)
       /\ result[q].outcome = "returned"
       /\ result[q].location = UnknownLocation

\* C6 (as claimed): a state or municipality whose country code no stored
\* country carries is still stored, with a null country reference; the
\* miss makes no failure record of it and does not end the ingestion.
C6_LookupMissIsStored ==
    /\ pc # "crashed"
    /\ \A i \in DOMAIN state_data :
          MissesCountry(state_data[i].shapeGroup) =>
             \E st \in DOMAIN states :
                states[st].code = state_data[i].shapeID /\ states[st].country_id = 0
    /\ \A k \in DOMAIN muni_data :
          (WellFormed(k) /\ Len(state_geoms) > 0
             /\ MissesCountry(muni_data[k].shapeGroup)) =>
             /\ FailuresOf(k) = {}
             /\ \E m \in RowsOf(k) : municipalities[m].country_id = 0

\* C7 (as claimed): with no parent the index build fails at once; the
\* batch never gets to process a child or to complete on an empty index.
C7_EmptyIndexFails ==
    (pc \in {"municipalities", "done"} /\ Len(state_geoms) = 0) =>
       (muni_data = << >> /\ pc # "done")

\* What C8 expects of a query: rows that do not materialize are skipped,
\* the first later row that covers the point is returned, else UNKNOWN.
RECURSIVE SkippingFind(_, _, _, _)
SkippingFind(rows, i, lon, lat) ==
    IF i > Len(rows) THEN UnknownLocation
    ELSE IF Materializes(rows[i].geom)
            /\ CoversPoint(Materialize(rows[i].geom), lon, lat)
    THEN Location(rows[i])
    ELSE SkippingFind(rows, i + 1, lon, lat)

\* C8 (as claimed): a candidate whose stored geometry does not materialize
\* is skipped and the query still returns, with the first later candidate
\* that covers the point or with the unknown result.
C8_CorruptCandidateSkipped ==
    \A q \in DOMAIN result :
       /\ result[q].outcome = "returned"
       /\ result[q].location =
             SkippingFind(result[q].rows, 1, result[q].lon, result[q].lat)

\* C9 (as claimed): after the batch every stored municipality has a state
\* id that is the code of a stored state and a country id that is the id
\* of a stored country.
C9_ParentsExist ==
    pc = "done" =>
       \A m \in DOMAIN municipalities :
          /\ \E st \in DOMAIN states : states[st].code = municipalities[m].state_id
          /\ \E c \in DOMAIN countries : countries[c].id = municipalities[m].country_id

\* C10 (as claimed): after the batch the ids of municipalities are the ids
\* of municipalities_rtree: a failed feature left no row in either table,
\* an assigned one a row in both.
C10_TablesAgree ==
    pc = "done" =>
       /\ { municipalities[m].id : m \in DOMAIN municipalities }
            = { municipalities_rtree[r].id : r \in DOMAIN municipalities_rtree }
       /\ \A k \in DOMAIN muni_data :
             IF FailuresOf(k) # {}
             THEN RowsOf(k) = {} /\ BoxRowsOf(k) = {}
             ELSE RowsOf(k) # {} /\ BoxRowsOf(k) # {}

====
